---- MODULE Spec2Model ----
(***************************************************************************)
(* Model of ramsey_chevron.py: the RamseyChevron measurement class.        *)
(*                                                                         *)
(* Times are integers in nanoseconds and frequencies integers in MHz (the  *)
(* source uses floats in s and Hz).  numpy arrays are records              *)
(* [ndim, data]; Python's None is the record None.                         *)
(***************************************************************************)
EXTENDS Integers, Sequences, FiniteSets, TLC

VARIABLES
    self,        \* the RamseyChevron instance at hand (None: there is none)
    calls,       \* the calls the last run() of this instance made, in order
    dac_rate,    \* what pls.get_fs("dac") returned to that run() (0: no run)
    float_up,    \* how the float products of that run() rounded at a half
    runStatus,   \* how that run() ended ("idle": this instance never ran)
    h5file,      \* the file written by save()
    loadSrc,     \* the file handed to load(), if load() was the last call
    loadStatus,  \* how that load() ended
    analysis     \* what the last analyze() of this instance did

vars == <<self, calls, dac_rate, float_up, runStatus, h5file, loadSrc, loadStatus, analysis>>

(***************************************************************************)
(* Bounds of the model.                                                    *)
(***************************************************************************)
MaxFreqNr == 3
MaxDelays == 3

(***************************************************************************)
(* Program constants.                                                      *)
(***************************************************************************)
DAC_CURRENT == 32000
IDX_HIGH == 2000
\* pls.get_clk_T(): the duration of one clock cycle, in ns
ClkT == 2
\* pls.get_fs("adc"): samples per ns of the time axis returned by the SDK
AdcRate == 1
\* pls.get_fs("dac") in MHz, as reported by the SDK for the converter modes
DacRates == {1000, 2000}

None == [isNone |-> TRUE]

Array(ndim, data) == [ndim |-> ndim, data |-> data]

\* np.atleast_1d(a).astype(np.float64): a 0-d array becomes a 1-d array of
\* one element; integers and floats are not distinguished in the model
AtLeast1d(a) == IF a.ndim = 0 THEN Array(1, a.data) ELSE a

Abs(x) == IF x < 0 THEN -x ELSE x

Half(x) == x \div 2

\* int(round(x)) of the float x that stands for num / den (den > 0).  Away
\* from a half the nearest integer; at a half the float product carries an
\* error of either sign (123.49999999999999, 248.50000000000003) or none
\* (round then goes to the even neighbour), so the result is the lower or
\* the upper neighbour: up says which
RoundFloat(num, den, up) ==
    LET q == num \div den
        r == num % den
    IN  IF 2 * r < den THEN q
        ELSE IF 2 * r > den THEN q + 1
        ELSE IF up THEN q + 1 ELSE q

\* np.linspace(start, stop, num): num = 1 gives [start]
Linspace(start, stop, num) ==
    [i \in 1..num |->
        IF num = 1 THEN start
        ELSE start + ((i - 1) * (stop - start)) \div (num - 1)]

RECURSIVE SeqSum(_)
SeqSum(s) == IF s = <<>> THEN 0 ELSE Head(s) + SeqSum(Tail(s))

(***************************************************************************)
(* RamseyChevron.__init__                                                  *)
(***************************************************************************)
ParamNames ==
    {"readout_freq", "control_freq_center", "control_freq_span",
     "control_freq_nr", "readout_amp", "control_amp", "readout_duration",
     "control_duration", "sample_duration", "delay_arr", "readout_port",
     "control_port", "sample_port", "wait_delay", "readout_sample_delay",
     "num_averages", "jpa_params", "drag"}

ArrayNames == {"control_freq_arr", "t_arr", "store_arr"}

New(args) ==
    [k \in ParamNames \cup ArrayNames |->
        IF k \in ArrayNames THEN None
        ELSE IF k = "delay_arr" THEN AtLeast1d(args[k])
        ELSE args[k]]

(***************************************************************************)
(* RamseyChevron.run: frequency plan                                       *)
(***************************************************************************)
\* the two assertions that open run()
FreqAssertsPass(p, fs_dac) ==
    /\ p.control_freq_center > Half(p.control_freq_span)
    /\ p.control_freq_span < Half(fs_dac)

control_if_center(fs_dac) == fs_dac \div 4

control_if_arr(p, fs_dac) ==
    LET control_if_start == control_if_center(fs_dac) - Half(p.control_freq_span)
        control_if_stop == control_if_center(fs_dac) + Half(p.control_freq_span)
    IN  Linspace(control_if_start, control_if_stop, p.control_freq_nr)

control_nco(p, fs_dac) == p.control_freq_center - control_if_center(fs_dac)

ControlFreqArr(p, fs_dac) ==
    [i \in 1..p.control_freq_nr |-> control_nco(p, fs_dac) + control_if_arr(p, fs_dac)[i]]

(***************************************************************************)
(* Calls into the vendor SDK, in the order run() makes them.               *)
(***************************************************************************)
Call(op, t, port, arg) == [op |-> op, t |-> t, port |-> port, arg |-> arg]

\* hardware, mixer, lookup-table, template and store-window configuration
ConfigCalls(p, fs_dac) ==
    <<Call("set_adc_attenuation", 0, p.sample_port, 0),
      Call("set_dac_current", 0, p.readout_port, DAC_CURRENT),
      Call("set_dac_current", 0, p.control_port, DAC_CURRENT),
      Call("set_inv_sinc", 0, p.readout_port, 0),
      Call("set_inv_sinc", 0, p.control_port, 0),
      Call("configure_mixer", 0, p.readout_port, p.readout_freq),
      Call("configure_mixer", 0, p.control_port, control_nco(p, fs_dac))>>
    \o (IF p.jpa_params # None
        THEN <<Call("set_lmx", 0, p.jpa_params.pump_port, p.jpa_params.pump_freq),
               Call("set_dc_bias", 0, p.jpa_params.bias_port, p.jpa_params.bias),
               Call("sleep", 0, 0, 1)>>
        ELSE <<>>)
    \o
    <<Call("setup_freq_lut", 0, p.readout_port, <<0>>),
      Call("setup_freq_lut", 0, p.control_port, control_if_arr(p, fs_dac)),
      Call("setup_scale_lut", 0, p.readout_port, p.readout_amp),
      Call("setup_scale_lut", 0, p.control_port, 1),
      Call("setup_long_drive", 0, p.readout_port, p.readout_duration),
      Call("setup_template", 0, p.control_port, p.control_duration * (fs_dac \div 1000)),
      Call("set_store_ports", 0, p.sample_port, 0),
      Call("set_store_duration", 0, p.sample_port, p.sample_duration)>>

\* IterationEvents with the Ramsey delay counted from the start of the first
\* control pulse instead of from its end
IterationEventsStartToStart(p, T, delay) ==
    LET T2 == T + delay
        T3 == T + p.control_duration + delay + p.control_duration
    IN  <<Call("reset_phase", T, p.control_port, 0),
          Call("output_pulse", T, p.control_port, 0),
          Call("output_pulse", T2, p.control_port, 0),
          Call("reset_phase", T3, p.readout_port, 0),
          Call("output_pulse", T3, p.readout_port, 0),
          Call("store", T3 + p.readout_sample_delay, p.sample_port, 0)>>

\* one iteration of the loop over delay_arr, starting at time T
IterationEvents(p, T, delay) ==
    LET T2 == T + p.control_duration + delay
        T3 == T2 + p.control_duration
    IN  <<Call("reset_phase", T, p.control_port, 0),
          Call("output_pulse", T, p.control_port, 0),
          Call("output_pulse", T2, p.control_port, 0),
          Call("reset_phase", T3, p.readout_port, 0),
          Call("output_pulse", T3, p.readout_port, 0),
          Call("store", T3 + p.readout_sample_delay, p.sample_port, 0)>>

IterationEnd(p, T, delay) ==
    T + p.control_duration + delay + p.control_duration
      + p.readout_duration + p.wait_delay

RECURSIVE ProgramLoop(_, _, _, _)
ProgramLoop(p, k, T, acc) ==
    IF k > Len(p.delay_arr.data) THEN [T |-> T, events |-> acc]
    ELSE ProgramLoop(p, k + 1, IterationEnd(p, T, p.delay_arr.data[k]),
                     acc \o IterationEvents(p, T, p.delay_arr.data[k]))

\* Program without the wait_delay that follows next_frequency
ProgramNoFinalWait(p) ==
    LET loop == ProgramLoop(p, 1, 0, <<>>)
    IN  [T |-> loop.T,
         events |-> Append(loop.events,
                           Call("next_frequency", loop.T, p.control_port, 0))]

\* the programmed sequence: the loop, then next_frequency, then wait_delay
Program(p) ==
    LET loop == ProgramLoop(p, 1, 0, <<>>)
    IN  [T |-> loop.T + p.wait_delay,
         events |-> Append(loop.events,
                           Call("next_frequency", loop.T, p.control_port, 0))]

(***************************************************************************)
(* Period adjustment for the JPA idler.                                    *)
(***************************************************************************)
idler_if(p) ==
    Abs((p.jpa_params.pump_freq - p.readout_freq) - p.readout_freq)

\* int(round(idler_period * clk_f)) with idler_period = 1 / idler_if:
\* 1000 / idler_if ns, in clock cycles of ClkT ns
idler_period_clk(p, up) == RoundFloat(1000, idler_if(p) * ClkT, up)

\* int(round(T * clk_f))
ToClk(T, up) == RoundFloat(T, ClkT, up)

\* 1 / idler_if and T_clk % idler_period_clk raise ZeroDivisionError
JpaRaises(p, fp) ==
    /\ p.jpa_params # None
    /\ \/ idler_if(p) = 0
       \/ idler_period_clk(p, fp.idler_up) = 0

\* AdjustClk without the final extra clock cycle
AdjustClkNoExtraCycle(T_clk, period_clk) ==
    IF T_clk % period_clk > 0
    THEN T_clk + (period_clk - (T_clk % period_clk))
    ELSE T_clk

\* T_clk made a multiple of the idler period, then off by one clock cycle
AdjustClk(T_clk, period_clk) ==
    (IF T_clk % period_clk > 0
     THEN T_clk + (period_clk - (T_clk % period_clk))
     ELSE T_clk) + 1

\* the period handed to pls.run, in ns
Period(p, fp) ==
    IF p.jpa_params # None
    THEN AdjustClk(ToClk(Program(p).T, fp.T_up),
                   idler_period_clk(p, fp.idler_up)) * ClkT
    ELSE Program(p).T

(***************************************************************************)
(* What the hardware does with the programmed sequence (pls.run): the      *)
(* events of one period are played repeat_count times; next_frequency      *)
(* steps the control port to the next row of its frequency lookup table;   *)
(* every store appends one trace to the store buffer.  A trace is          *)
(* identified by the lookup-table row in effect and by the gap between the *)
(* two control pulses that precede it.                                     *)
(***************************************************************************)
RECURSIVE Execute(_, _, _, _, _, _, _)
Execute(p, evs, i, rep, lut, ctl, acc) ==
    IF rep >= p.control_freq_nr THEN acc
    ELSE IF i > Len(evs) THEN Execute(p, evs, 1, rep + 1, lut, ctl, acc)
    ELSE LET e == evs[i]
         IN  IF e.op = "output_pulse" /\ e.port = p.control_port
             THEN Execute(p, evs, i + 1, rep, lut, <<ctl[2], e.t>>, acc)
             ELSE IF e.op = "next_frequency"
             THEN Execute(p, evs, i + 1, rep, (lut + 1) % p.control_freq_nr, ctl, acc)
             ELSE IF e.op = "store"
             THEN Execute(p, evs, i + 1, rep, lut, ctl,
                          Append(acc, [freq_idx |-> lut,
                                       delay |-> ctl[2] - ctl[1] - p.control_duration]))
             ELSE Execute(p, evs, i + 1, rep, lut, ctl, acc)

\* pls.get_store_data(): the time axis of one trace, kept by its length only,
\* and the store buffer
TimeAxis(p) == [ndim |-> 1, size |-> p.sample_duration * AdcRate]

StoreData(p) == Array(3, Execute(p, Program(p).events, 1, 0, 0, <<0, 0>>, <<>>))

\* RunCalls with the store buffer fetched before the experiment is run
RunCallsFetchFirst(p, fp) ==
    <<Call("get_store_data", 0, 0, 0),
      Call("run", 0, 0, [period |-> Period(p, fp),
                         repeat_count |-> p.control_freq_nr,
                         num_averages |-> p.num_averages])>>
    \o (IF p.jpa_params # None
        THEN <<Call("set_lmx", 0, p.jpa_params.pump_port, 0),
               Call("set_dc_bias", 0, p.jpa_params.bias_port, 0)>>
        ELSE <<>>)

\* pls.run, pls.get_store_data, and the JPA pump and bias switched off
RunCalls(p, fp) ==
    <<Call("run", 0, 0, [period |-> Period(p, fp),
                         repeat_count |-> p.control_freq_nr,
                         num_averages |-> p.num_averages]),
      Call("get_store_data", 0, 0, 0)>>
    \o (IF p.jpa_params # None
        THEN <<Call("set_lmx", 0, p.jpa_params.pump_port, 0),
               Call("set_dc_bias", 0, p.jpa_params.bias_port, 0)>>
        ELSE <<>>)

\* index of the first call of the SDK operation op in cs, 0 if there is none
FirstCall(cs, op) ==
    IF \E i \in 1..Len(cs) : cs[i].op = op
    THEN CHOOSE i \in 1..Len(cs) :
            /\ cs[i].op = op
            /\ \A j \in 1..(i - 1) : cs[j].op # op
    ELSE 0

\* the SDK operations whose failure (a vendor exception) the model considers
SdkFailOps == {"configure_mixer", "run"}

NoFloatError == [T_up |-> FALSE, idler_up |-> FALSE]

\* which way the two float products of the period adjustment fall when they
\* stand for a half; without JPA parameters neither is computed
IsHalf(num, den) == den > 0 /\ 2 * (num % den) = den

FloatErrors(p) ==
    IF p.jpa_params = None THEN {NoFloatError}
    ELSE [T_up : IF IsHalf(Program(p).T, ClkT) THEN BOOLEAN ELSE {FALSE},
          idler_up : IF IsHalf(1000, idler_if(p) * ClkT) THEN BOOLEAN ELSE {FALSE}]

\* run() up to the return of the with-block: the calls made and how it ended.
\* fail names the SDK operation that raises, or "none"
RunOutcome(p, fs_dac, fail, fp) ==
    IF ~FreqAssertsPass(p, fs_dac)
    THEN [status |-> "AssertionError", calls |-> <<>>]
    ELSE LET pre == ConfigCalls(p, fs_dac) \o Program(p).events
         IN  IF FirstCall(pre, fail) > 0
             THEN [status |-> "SdkError",
                   calls |-> SubSeq(pre, 1, FirstCall(pre, fail))]
             ELSE IF JpaRaises(p, fp)
             THEN [status |-> "ZeroDivisionError", calls |-> pre]
             ELSE LET full == pre \o RunCalls(p, fp)
                  IN  IF FirstCall(full, fail) > 0
                      THEN [status |-> "SdkError",
                            calls |-> SubSeq(full, 1, FirstCall(full, fail))]
                      ELSE [status |-> "returned", calls |-> full]

(***************************************************************************)
(* Base.save: every parameter is written as an attribute of the file       *)
(* (jpa_params as its string), every array as a dataset.                   *)
(***************************************************************************)
AttrNames == ParamNames \ {"delay_arr"}

DatasetNames == ArrayNames \cup {"delay_arr"}

\* str(v) of a parameter dictionary or of None
PyStr(v) == [repr |-> v]

\* a stored string that is not Python syntax, and one that is Python but no
\* literal
NotPython == [malformed |-> "syntax"]

NotALiteral == [malformed |-> "value"]

FileOf(inst) ==
    [attrs |-> [k \in AttrNames |->
                   IF k = "jpa_params" THEN PyStr(inst[k]) ELSE inst[k]],
     dsets |-> [k \in DatasetNames |-> inst[k]]]

NoAnalysis ==
    [status |-> "none", steps |-> <<>>, resp_arr |-> <<>>, fit_freq |-> <<>>,
     failed |-> {}, ret_fig |-> <<>>]

(***************************************************************************)
(* RamseyChevron.run                                                       *)
(***************************************************************************)
Run ==
    /\ self # None
    /\ \E fs_dac \in DacRates, fail \in SdkFailOps \cup {"none"},
          fp \in FloatErrors(self) :
          LET out == RunOutcome(self, fs_dac, fail, fp)
              freq == Array(1, ControlFreqArr(self, fs_dac))
              inst == IF out.status = "AssertionError" THEN self
                      ELSE IF out.status = "returned"
                      THEN [self EXCEPT !.control_freq_arr = freq,
                                        !.t_arr = TimeAxis(self),
                                        !.store_arr = StoreData(self)]
                      ELSE [self EXCEPT !.control_freq_arr = freq]
          IN  /\ dac_rate' = fs_dac
              /\ float_up' = fp
              /\ self' = inst
              /\ calls' = IF out.status = "returned"
                          THEN Append(out.calls, Call("save", 0, 0, 0))
                          ELSE out.calls
              /\ runStatus' = out.status
              /\ h5file' = IF out.status = "returned" THEN FileOf(inst) ELSE h5file
    /\ analysis' = NoAnalysis
    /\ loadSrc' = None
    /\ loadStatus' = "none"

(***************************************************************************)
(* RamseyChevron.save: callable at any time, on whatever the instance      *)
(* holds.                                                                  *)
(***************************************************************************)
Save ==
    /\ self # None
    /\ h5file' = FileOf(self)
    /\ UNCHANGED <<self, calls, dac_rate, float_up, runStatus, loadSrc,
                   loadStatus, analysis>>

(***************************************************************************)
(* RamseyChevron.load                                                      *)
(***************************************************************************)
\* ast.literal_eval of the stored string
LiteralEval(s) == s.repr

\* attributes and datasets in the order load() reads them, up to jpa_params
ReadFirst == AttrNames \ {"jpa_params", "drag"}

LoadStatus(f) ==
    IF ~(ReadFirst \subseteq DOMAIN f.attrs) \/ "delay_arr" \notin DOMAIN f.dsets
    THEN "KeyError"
    ELSE IF "jpa_params" \notin DOMAIN f.attrs THEN "KeyError"
    ELSE IF f.attrs.jpa_params.repr = NotPython THEN "SyntaxError"
    ELSE IF f.attrs.jpa_params.repr = NotALiteral THEN "ValueError"
    ELSE IF ~(ArrayNames \subseteq DOMAIN f.dsets) THEN "KeyError"
    ELSE "ok"

\* Loaded without the assignment of control_freq_arr after construction
LoadedWithoutFreqArr(f) ==
    LET args == [k \in ParamNames |->
                    IF k = "delay_arr" THEN f.dsets.delay_arr
                    ELSE IF k = "jpa_params" THEN LiteralEval(f.attrs.jpa_params)
                    ELSE IF k = "drag"
                    THEN (IF "drag" \in DOMAIN f.attrs THEN f.attrs.drag ELSE 0)
                    ELSE f.attrs[k]]
    IN  [New(args) EXCEPT !.t_arr = f.dsets.t_arr,
                          !.store_arr = f.dsets.store_arr]

\* the instance load() builds from a file it can read
Loaded(f) ==
    LET args == [k \in ParamNames |->
                    IF k = "delay_arr" THEN f.dsets.delay_arr
                    ELSE IF k = "jpa_params" THEN LiteralEval(f.attrs.jpa_params)
                    ELSE IF k = "drag"
                    THEN (IF "drag" \in DOMAIN f.attrs THEN f.attrs.drag ELSE 0)
                    ELSE f.attrs[k]]
    IN  [New(args) EXCEPT !.control_freq_arr = f.dsets.control_freq_arr,
                          !.t_arr = f.dsets.t_arr,
                          !.store_arr = f.dsets.store_arr]

Without(fn, k) == [x \in (DOMAIN fn) \ {k} |-> fn[x]]

\* the files load() is given: a saved file, and that file with one attribute
\* or dataset missing, with a 0-d delay_arr, with an unparsable jpa_params,
\* or with control_freq_arr cut short
FileInputs(base) ==
    {base}
    \cup {[base EXCEPT !.attrs = Without(base.attrs, k)] : k \in AttrNames}
    \cup {[base EXCEPT !.dsets = Without(base.dsets, k)] : k \in DatasetNames}
    \cup {[base EXCEPT !.dsets.delay_arr = Array(0, <<base.dsets.delay_arr.data[1]>>)],
          [base EXCEPT !.attrs.jpa_params = PyStr(NotPython)],
          [base EXCEPT !.attrs.jpa_params = PyStr(NotALiteral)]}
    \cup (IF \/ base.dsets.control_freq_arr = None
              \/ Len(base.dsets.control_freq_arr.data) # base.attrs.control_freq_nr
           THEN {} ELSE {
          [base EXCEPT !.dsets.control_freq_arr =
              Array(1, SubSeq(base.dsets.control_freq_arr.data, 2,
                              Len(base.dsets.control_freq_arr.data)))]})

Load ==
    /\ h5file # None
    /\ \E f \in FileInputs(h5file) :
          /\ loadSrc' = f
          /\ loadStatus' = LoadStatus(f)
          /\ self' = IF LoadStatus(f) = "ok" THEN Loaded(f) ELSE None
    /\ calls' = <<>>
    /\ dac_rate' = 0
    /\ float_up' = NoFloatError
    /\ runStatus' = "idle"
    /\ analysis' = NoAnalysis
    /\ UNCHANGED h5file

(***************************************************************************)
(* RamseyChevron.analyze                                                   *)
(***************************************************************************)
NaN == [nan |-> TRUE, v |-> 0]

Finite(x) == [nan |-> FALSE, v |-> x]

AnalyzeAssertsPass(inst) ==
    /\ inst.t_arr # None
    /\ inst.store_arr # None
    /\ inst.control_freq_arr # None
    /\ Len(inst.control_freq_arr.data) = inst.control_freq_nr

\* Reshape filling the grid column by column
ReshapeColumnMajor(flat, rows, cols) ==
    [j \in 1..rows |-> [k \in 1..cols |-> flat[(k - 1) * rows + j]]]

\* resp_arr.shape = (rows, cols) on a flat array, row-major
Reshape(flat, rows, cols) ==
    [j \in 1..rows |-> [k \in 1..cols |-> flat[(j - 1) * cols + k]]]

\* res[3] of _fit_simple for row jj (1-based) when its fit converges: the
\* fitted oscillation frequency, which can come out with either sign
FittedFrequency(inst, jj) ==
    inst.control_freq_arr.data[jj] - inst.control_freq_center

\* the loop over the rows: failed is the set of rows whose _fit_simple raises
FitFreq(inst, failed) ==
    [jj \in 1..inst.control_freq_nr |->
        IF jj \in failed THEN NaN ELSE Finite(Abs(FittedFrequency(inst, jj)))]

AnalysisAt(status, steps, resp, fit, failed, figs) ==
    [status |-> status, steps |-> steps, resp_arr |-> resp, fit_freq |-> fit,
     failed |-> failed, ret_fig |-> figs]

\* analyze(all_plots); failed: the rows whose fit raises; fitOk: whether the
\* final curve_fit of the detuning converges
AnalyzeOutcome(inst, all_plots, failed, fitOk) ==
    LET nr == inst.control_freq_nr
        nd == Len(inst.delay_arr.data)
        raw == IF all_plots THEN <<"plot_raw">> ELSE <<>>
        fig1 == IF all_plots THEN <<"fig1">> ELSE <<>>
        resp == Reshape(inst.store_arr.data, nr, nd)
        fit == FitFreq(inst, failed)
    IN  IF ~AnalyzeAssertsPass(inst)
        THEN AnalysisAt("AssertionError", <<>>, <<>>, <<>>, {}, <<>>)
        ELSE IF inst.t_arr.size <= IDX_HIGH
        THEN AnalysisAt("IndexError", <<>>, <<>>, <<>>, {}, <<>>)
        ELSE IF Len(inst.store_arr.data) # nr * nd
        THEN AnalysisAt("ValueError", raw, <<>>, <<>>, {}, <<>>)
        ELSE IF nd < 2 \/ nr < 2
        THEN AnalysisAt("IndexError", raw \o <<"reshape">>, resp, <<>>, {}, <<>>)
        ELSE IF failed = 1..nr
        THEN AnalysisAt("ValueError", raw \o <<"reshape", "imshow", "fit_rows">>,
                        resp, fit, failed, <<>>)
        ELSE IF ~fitOk
        THEN AnalysisAt("RuntimeError", raw \o <<"reshape", "imshow", "fit_rows">>,
                        resp, fit, failed, <<>>)
        ELSE AnalysisAt("returned",
                        raw \o <<"reshape", "imshow", "fit_rows", "curve_fit", "plot_fit">>,
                        resp, fit, failed, fig1 \o <<"fig2">>)

Analyze ==
    /\ self # None
    /\ \E all_plots \in BOOLEAN, fitOk \in BOOLEAN,
          failed \in SUBSET (1..self.control_freq_nr) :
          analysis' = AnalyzeOutcome(self, all_plots, failed, fitOk)
    /\ UNCHANGED <<self, calls, dac_rate, float_up, runStatus, h5file, loadSrc, loadStatus>>

(***************************************************************************)
(* Constructor arguments.                                                  *)
(***************************************************************************)
DefaultArgs ==
    [readout_freq |-> 6000, control_freq_center |-> 4000,
     control_freq_span |-> 240, control_freq_nr |-> 2,
     readout_amp |-> 1, control_amp |-> 1,
     readout_duration |-> 200, control_duration |-> 20,
     sample_duration |-> 2048, delay_arr |-> Array(1, <<0, 10>>),
     readout_port |-> 1, control_port |-> 2, sample_port |-> 1,
     wait_delay |-> 500, readout_sample_delay |-> 30,
     num_averages |-> 10, jpa_params |-> None, drag |-> 0]

DelayValues == {0, 7}

\* delay_arr as given to the constructor: a list of 1..MaxDelays delays, or
\* a single number
DelayInputs ==
    {Array(1, d) : d \in UNION {[1..n -> DelayValues] : n \in 1..MaxDelays}}
    \cup {Array(0, <<v>>) : v \in DelayValues}

JpaDict(pump_freq) ==
    [pump_freq |-> pump_freq, pump_pwr |-> 5, pump_port |-> 3,
     bias |-> 1, bias_port |-> 4]

PumpFreqs == {12000, 12007, 12100, 12500, 13000}

FreqArgs ==
    {[DefaultArgs EXCEPT !.control_freq_center = c, !.control_freq_span = s,
                         !.control_freq_nr = n, !.drag = g] :
        c \in {100, 4000}, s \in {-1200, 0, 240, 504},
        n \in 1..MaxFreqNr, g \in {0}}

TimingArgs ==
    {[DefaultArgs EXCEPT !.delay_arr = d, !.drag = 1] : d \in DelayInputs}
    \cup {[DefaultArgs EXCEPT !.sample_duration = 1000]}

JpaDelays == {Array(1, <<0, 10>>), Array(1, <<7>>)}

JpaArgs ==
    {[DefaultArgs EXCEPT !.jpa_params = JpaDict(f), !.delay_arr = d,
                         !.wait_delay = w] :
        f \in PumpFreqs, d \in JpaDelays, w \in {0, 500}}

ArgInputs == FreqArgs \cup TimingArgs \cup JpaArgs

Init ==
    /\ \E args \in ArgInputs : self = New(args)
    /\ calls = <<>>
    /\ dac_rate = 0
    /\ float_up = NoFloatError
    /\ runStatus = "idle"
    /\ h5file = None
    /\ loadSrc = None
    /\ loadStatus = "none"
    /\ analysis = NoAnalysis

Next == Run \/ Save \/ Load \/ Analyze

Spec == Init /\ [][Next]_vars

(***************************************************************************)
(* What the properties below read from the trace of run().                 *)
(***************************************************************************)
IsTimed(c) == c.op \in {"reset_phase", "output_pulse", "store", "next_frequency"}

\* the programmed pulse sequence, in programming order
Sequence == SelectSeq(calls, IsTimed)

NrOf(cs, op) == Cardinality({i \in 1..Len(cs) : cs[i].op = op})

\* the arguments of pls.run
RunArg == calls[FirstCall(calls, "run")].arg

\* the time of the next_frequency event
StepTime == Sequence[FirstCall(Sequence, "next_frequency")].t

Delays == self.delay_arr.data

(***************************************************************************)
(* C2: in the sequence programmed by run(), iteration k over delay_arr     *)
(* starts at T_k (T_1 = 0) with the control-port phase reset and the first *)
(* control pulse; the second control pulse is at T_k + control_duration +  *)
(* delay_arr[k], so the gap between the two pulses is delay_arr[k]; the    *)
(* readout-port phase reset and the readout pulse are at T_k +             *)
(* 2*control_duration + delay_arr[k]; the store is readout_sample_delay    *)
(* later; the next iteration (or next_frequency after the last one) is at  *)
(* readout time + readout_duration + wait_delay.                           *)
(***************************************************************************)
\* C2: every iteration over delay_arr schedules its six events at the times
\* the claim gives, and the next iteration follows readout_duration +
\* wait_delay after the readout
C2_IterationTiming ==
    runStatus = "returned" =>
        /\ Len(Sequence) = 6 * Len(Delays) + 1
        /\ Sequence[1].t = 0
        /\ \A k \in 1..Len(Delays) :
              LET b == 6 * (k - 1)
                  T == Sequence[b + 1].t
                  R == T + 2 * self.control_duration + Delays[k]
              IN  /\ Sequence[b + 1] = Call("reset_phase", T, self.control_port, 0)
                  /\ Sequence[b + 2] = Call("output_pulse", T, self.control_port, 0)
                  /\ Sequence[b + 3] =
                        Call("output_pulse", T + self.control_duration + Delays[k],
                             self.control_port, 0)
                  /\ Sequence[b + 3].t - (Sequence[b + 2].t + self.control_duration)
                        = Delays[k]
                  /\ Sequence[b + 4] = Call("reset_phase", R, self.readout_port, 0)
                  /\ Sequence[b + 5] = Call("output_pulse", R, self.readout_port, 0)
                  /\ Sequence[b + 6] =
                        Call("store", R + self.readout_sample_delay, self.sample_port, 0)
                  /\ Sequence[b + 7].t = R + self.readout_duration + self.wait_delay

\* C2 witness: a run over three delays, not all equal, the second iteration not at time 0
C2_Witness ==
    /\ runStatus = "returned"
    /\ Len(Delays) = 3
    /\ Delays[1] # Delays[2]
    /\ Sequence[7].t > 0
    /\ Sequence[9].op = "output_pulse"

(***************************************************************************)
(* C8: without JPA parameters the period passed to pls.run is              *)
(* len(delay_arr) * (2*control_duration + readout_duration + wait_delay)   *)
(* + sum(delay_arr) + wait_delay, and the one next_frequency event is      *)
(* scheduled wait_delay before the end of that period.                     *)
(***************************************************************************)
\* C8: the period without JPA, and next_frequency wait_delay before its end
C8_PeriodWithoutJpa ==
    (runStatus = "returned" /\ self.jpa_params = None) =>
        /\ RunArg.period =
              Len(Delays) * (2 * self.control_duration + self.readout_duration
                             + self.wait_delay)
              + SeqSum(Delays) + self.wait_delay
        /\ NrOf(Sequence, "next_frequency") = 1
        /\ StepTime = RunArg.period - self.wait_delay

\* C8 witness: a run without JPA over at least two delays, wait_delay > 0
C8_Witness ==
    /\ runStatus = "returned"
    /\ self.jpa_params = None
    /\ self.wait_delay > 0
    /\ Len(Delays) >= 2
    /\ SeqSum(Delays) > 0
    /\ RunArg.period > StepTime

(***************************************************************************)
(* C6: with JPA parameters and an idler period of at least one clock       *)
(* cycle, the period handed to pls.run is T_clk clock cycles where         *)
(* T_clk - 1 is the smallest multiple of idler_period_clk that is >= T0,   *)
(* T0 being the unadjusted sequence length rounded to clock cycles:        *)
(* (T_clk - 1) mod idler_period_clk = 0 and T0 < T_clk <= T0 +             *)
(* idler_period_clk; the period is never shorter than T0.                  *)
(***************************************************************************)
UnadjustedLength == StepTime + self.wait_delay

UnadjustedClk == ToClk(UnadjustedLength, float_up.T_up)

IdlerClk == idler_period_clk(self, float_up.idler_up)

PeriodClk == RunArg.period \div ClkT

\* C6: the JPA period is one clock cycle more than the smallest multiple of
\* the idler period that is not below the rounded sequence length
C6_JpaPeriod ==
    (runStatus = "returned" /\ self.jpa_params # None
        /\ idler_if(self) # 0 /\ IdlerClk >= 1) =>
        /\ RunArg.period = PeriodClk * ClkT
        /\ (PeriodClk - 1) % IdlerClk = 0
        /\ PeriodClk - 1 >= UnadjustedClk
        /\ \A m \in UnadjustedClk..(PeriodClk - 2) : m % IdlerClk # 0
        /\ UnadjustedClk < PeriodClk
        /\ PeriodClk <= UnadjustedClk + IdlerClk
        /\ RunArg.period > UnadjustedLength

\* C6 witness: a run whose sequence length is half a clock cycle off and not a multiple
\* of the idler period, so the period is both rounded and lengthened
C6_Witness ==
    /\ runStatus = "returned"
    /\ self.jpa_params # None
    /\ UnadjustedLength % ClkT # 0
    /\ UnadjustedClk * ClkT < UnadjustedLength
    /\ IdlerClk > 1
    /\ UnadjustedClk % IdlerClk > 0
    /\ PeriodClk > UnadjustedClk + 1

(***************************************************************************)
(* C3: the sweep covers the frequency x delay grid exactly once.  Each     *)
(* period holds len(delay_arr) stores and one next_frequency on the        *)
(* control port, scheduled after the last delay iteration; the period is   *)
(* repeated control_freq_nr times; store number j*len(delay_arr)+k is the  *)
(* measurement of frequency row j at delay k; and analyze()'s reshape puts *)
(* it at row j, column k, row j belonging to control_freq_arr[j].          *)
(***************************************************************************)
\* the lookup table written for the control port
ControlLut ==
    (SelectSeq(calls, LAMBDA c : c.op = "setup_freq_lut" /\ c.port = self.control_port))[1].arg

MixerFreq ==
    (SelectSeq(calls, LAMBDA c : c.op = "configure_mixer" /\ c.port = self.control_port))[1].arg

\* C3: every (frequency row, delay) pair is stored once, in row-major order,
\* and the reshape of analyze() puts it at its row and column
C3_GridCoveredOnce ==
    /\ runStatus = "returned" =>
          LET nd == Len(Delays)
              nr == self.control_freq_nr
              st == self.store_arr.data
          IN  /\ NrOf(Sequence, "store") = nd
              /\ NrOf(Sequence, "next_frequency") = 1
              /\ Sequence[Len(Sequence)] =
                    Call("next_frequency", StepTime, self.control_port, 0)
              /\ \A i \in 1..Len(Sequence) : Sequence[i].t <= StepTime
              /\ RunArg.repeat_count = nr
              /\ Len(st) = nr * nd
              /\ \A j \in 0..(nr - 1), k \in 0..(nd - 1) :
                    /\ st[j * nd + k + 1].freq_idx = j
                    /\ st[j * nd + k + 1].delay = Delays[k + 1]
                    /\ MixerFreq + ControlLut[j + 1] = self.control_freq_arr.data[j + 1]
    /\ (self # None /\ analysis.resp_arr # <<>>) =>
          /\ Len(analysis.resp_arr) = self.control_freq_nr
          /\ \A j \in 1..self.control_freq_nr :
                /\ Len(analysis.resp_arr[j]) = Len(Delays)
                /\ \A k \in 1..Len(Delays) :
                      /\ analysis.resp_arr[j][k].freq_idx = j - 1
                      /\ analysis.resp_arr[j][k].delay = Delays[k]

\* C3 witness: a grid of at least 2 x 3 with distinct delays, measured and analysed to
\* the end
C3_Witness ==
    /\ self # None
    /\ analysis.status = "returned"
    /\ self.control_freq_nr >= 2
    /\ Len(Delays) = 3
    /\ Delays[1] # Delays[2]
    /\ analysis.resp_arr[2][1].freq_idx = 1

(***************************************************************************)
(* C4 (as amended): inside run() the hardware, mixer and lookup-table      *)
(* set-up precedes the sequence programming, which precedes pls.run, which *)
(* precedes get_store_data, which precedes save(); the only hardware calls *)
(* after the programming are the two that switch the JPA pump and bias off *)
(* (set_lmx and set_dc_bias with 0), made between get_store_data and       *)
(* save().  t_arr, store_arr and control_freq_arr are None from            *)
(* construction until run() or load() acts.  analyze() called while one of *)
(* them is None, or while len(control_freq_arr) # control_freq_nr, fails   *)
(* its assertion before any fitting or plotting step.                      *)
(***************************************************************************)
HardwareOps ==
    {"set_adc_attenuation", "set_dac_current", "set_inv_sinc", "configure_mixer",
     "set_lmx", "set_dc_bias", "sleep", "setup_freq_lut", "setup_scale_lut",
     "setup_long_drive", "setup_template", "set_store_ports", "set_store_duration"}

SwitchesOff(c) == c.op \in {"set_lmx", "set_dc_bias"} /\ c.arg = 0

\* the place of a call in the order set-up, programming, run, fetch,
\* switch-off, save
StageAmended(c) ==
    IF SwitchesOff(c) THEN 5
    ELSE IF c.op \in HardwareOps THEN 1
    ELSE IF IsTimed(c) THEN 2
    ELSE IF c.op = "run" THEN 3
    ELSE IF c.op = "get_store_data" THEN 4
    ELSE 6

\* the order as the claim states it: every hardware call is set-up
StageClaimed(c) ==
    IF c.op \in HardwareOps THEN 1
    ELSE IF IsTimed(c) THEN 2
    ELSE IF c.op = "run" THEN 3
    ELSE IF c.op = "get_store_data" THEN 4
    ELSE 6

SomeArrayMissing ==
    \/ self.t_arr = None
    \/ self.store_arr = None
    \/ self.control_freq_arr = None
    \/ Len(self.control_freq_arr.data) # self.control_freq_nr

C4_ArraysAndAnalyze ==
    /\ (self # None /\ runStatus = "idle" /\ loadStatus = "none") =>
          /\ self.t_arr = None
          /\ self.store_arr = None
          /\ self.control_freq_arr = None
    /\ (self # None /\ self.t_arr # None) =>
          (self.store_arr # None /\ self.control_freq_arr # None)
    /\ (self # None /\ analysis.status # "none" /\ SomeArrayMissing) =>
          /\ analysis.status = "AssertionError"
          /\ analysis.steps = <<>>
          /\ analysis.fit_freq = <<>>
          /\ analysis.ret_fig = <<>>
    /\ runStatus = "returned" =>
          /\ NrOf(calls, "run") = 1
          /\ NrOf(calls, "get_store_data") = 1
          /\ calls[Len(calls)].op = "save"
          /\ self.t_arr # None

\* C4 (as amended): the calls of run() come in the order set-up, programming,
\* run, fetch, JPA switch-off, save; the arrays are None until run() or
\* load(); analyze() on missing arrays stops at its assertion
C4_PipelineOrder ==
    /\ \A i, j \in 1..Len(calls) :
          i < j => StageAmended(calls[i]) <= StageAmended(calls[j])
    /\ C4_ArraysAndAnalyze

\* C4 as stated: all hardware configuration precedes the programming
C4_AsClaimed ==
    /\ \A i, j \in 1..Len(calls) :
          i < j => StageClaimed(calls[i]) <= StageClaimed(calls[j])
    /\ C4_ArraysAndAnalyze

\* C4 witness: run() with JPA parameters stopped by the SDK inside pls.run, after all of
\* the set-up and programming, and analyze() called on what is left
C4_Witness ==
    /\ runStatus = "SdkError"
    /\ calls[Len(calls)].op = "run"
    /\ self.jpa_params # None
    /\ self.control_freq_arr # None
    /\ self.t_arr = None
    /\ analysis.status = "AssertionError"

(***************************************************************************)
(* C5 (as amended): load() reconstructs an instance whose parameters and   *)
(* arrays are the values stored in the file, with two conversions:         *)
(* jpa_params is the Python literal parsed from the stored string, and     *)
(* delay_arr is the stored dataset made at least one-dimensional.  The     *)
(* only attribute that may be absent is 'drag', and then drag = 0.0; the   *)
(* absence of any other attribute or dataset makes load() fail and return  *)
(* no instance.                                                            *)
(***************************************************************************)
RequiredPresent(f) ==
    /\ (AttrNames \ {"drag"}) \subseteq DOMAIN f.attrs
    /\ DatasetNames \subseteq DOMAIN f.dsets

C5_DragAndAbsence ==
    /\ loadStatus = "ok" =>
          /\ RequiredPresent(loadSrc)
          /\ \A k \in ArrayNames : self[k] = loadSrc.dsets[k]
          /\ "drag" \notin DOMAIN loadSrc.attrs => self.drag = 0
    /\ (loadSrc # None /\ ~RequiredPresent(loadSrc)) =>
          /\ loadStatus \notin {"ok", "none"}
          /\ self = None

\* C5 (as amended): the loaded instance holds the stored values, jpa_params
\* parsed from its string and delay_arr made one-dimensional; only 'drag'
\* may be absent
C5_LoadRestores ==
    /\ C5_DragAndAbsence
    /\ loadStatus = "ok" =>
          /\ \A k \in (DOMAIN loadSrc.attrs) \ {"jpa_params"} : self[k] = loadSrc.attrs[k]
          /\ PyStr(self.jpa_params) = loadSrc.attrs.jpa_params
          /\ self.delay_arr.data = loadSrc.dsets.delay_arr.data
          /\ self.delay_arr.ndim =
                IF loadSrc.dsets.delay_arr.ndim = 0 THEN 1
                ELSE loadSrc.dsets.delay_arr.ndim

\* C5 as stated: every parameter and array equals the stored value
C5_AsClaimed ==
    /\ C5_DragAndAbsence
    /\ loadStatus = "ok" =>
          /\ \A k \in DOMAIN loadSrc.attrs : self[k] = loadSrc.attrs[k]
          /\ self.delay_arr = loadSrc.dsets.delay_arr

\* C5 witness: a file saved with drag = 1, loaded without its 'drag'
\* attribute
C5_Witness ==
    /\ loadStatus = "ok"
    /\ "drag" \notin DOMAIN loadSrc.attrs
    /\ h5file.attrs.drag = 1
    /\ self.drag = 0
    /\ Len(self.store_arr.data) > 1
    /\ self.control_freq_arr = h5file.dsets.control_freq_arr

(***************************************************************************)
(* C1: in analyze() a fit that fails is reported as NaN and not as an      *)
(* exception: for every set of rows whose _fit_simple fails, the set of    *)
(* all rows included, fit_freq is NaN on exactly those rows and analyze()  *)
(* runs to completion and returns its figures.  Stated for sweeps with a   *)
(* positive span whose final fit of the detuning converges.                *)
(***************************************************************************)
\* C1: NaN on exactly the failed rows, and analyze() returns its figures, for
\* every set of failed rows
C1_AsClaimed ==
    (self # None /\ self.control_freq_span > 0
        /\ analysis.fit_freq # <<>> /\ analysis.status # "RuntimeError") =>
        /\ \A jj \in 1..self.control_freq_nr :
              (analysis.fit_freq[jj] = NaN) <=> (jj \in analysis.failed)
        /\ analysis.status = "returned"
        /\ analysis.ret_fig # <<>>

(***************************************************************************)
(* C7: whenever run() passes its two frequency assertions, every           *)
(* intermediate frequency written to the control-port lookup table lies    *)
(* strictly between 0 and fs_dac/2, the table is ascending and has         *)
(* control_freq_nr entries, and control_freq_arr is control_nco + the      *)
(* table, lies in [control_freq_center - control_freq_span/2,              *)
(* control_freq_center + control_freq_span/2] (first and last entry on the *)
(* two ends when there are at least two) and is strictly positive; when an *)
(* assertion fails, run() has made no hardware call.                       *)
(***************************************************************************)
\* C7: past the assertions the lookup table lies inside (0, fs_dac/2) and
\* ascends, and control_freq_arr is positive and spans the requested band
C7_AsClaimed ==
    /\ runStatus = "returned" =>
          LET nr == self.control_freq_nr
              freq == self.control_freq_arr.data
              lo == self.control_freq_center - Half(self.control_freq_span)
              hi == self.control_freq_center + Half(self.control_freq_span)
          IN  /\ Len(ControlLut) = nr
              /\ Len(freq) = nr
              /\ \A i \in 1..nr :
                    /\ 0 < ControlLut[i]
                    /\ 2 * ControlLut[i] < dac_rate
                    /\ freq[i] = MixerFreq + ControlLut[i]
                    /\ lo <= freq[i]
                    /\ freq[i] <= hi
                    /\ freq[i] > 0
              /\ \A i, j \in 1..nr : i < j => ControlLut[i] <= ControlLut[j]
              /\ nr >= 2 => (freq[1] = lo /\ freq[nr] = hi)
    /\ runStatus = "AssertionError" => calls = <<>>

====
